---- MODULE Spec2Model ----
(***************************************************************************)
(* linedify: the Dify client DifyAgent (src/linedify/dify.py).             *)
(*                                                                         *)
(* One invocation of DifyAgent.invoke is modelled as a state machine whose *)
(* steps are the stretches of code between two network suspension points:  *)
(* the request is built and sent, the HTTP response arrives, the response  *)
(* processor of the configured DifyType reads the body fragment by         *)
(* fragment, and the invocation returns a tuple or raises.                 *)
(*                                                                         *)
(* Bytes are symbols.  "LF" is the byte 0x0A, "C3" and "A9" are the two    *)
(* bytes of the UTF-8 encoding of U+00E9, every other symbol is a run of   *)
(* ASCII bytes that always travels together in this model ("data:" is the  *)
(* five-byte prefix, an object symbol is the text of one JSON object).     *)
(* A Python str is a sequence of characters; ASCII symbols decode to       *)
(* themselves and <<"C3", "A9">> decodes to the one character "U+E9".      *)
(***************************************************************************)
EXTENDS Integers, Sequences, FiniteSets, TLC

(***************************************************************************)
(* Bounds of the model.                                                    *)
(***************************************************************************)
MaxRecords == 2

(***************************************************************************)
(* JSON / Python values.  A value is tagged with its kind so that values   *)
(* of different Python types can be told apart; Python None is JNull, a    *)
(* Python dict is a function from keys to values.                          *)
(***************************************************************************)
JNull == [k |-> "null"]
JStr(s) == [k |-> "str", s |-> s]
JNum(n) == [k |-> "num", n |-> n]
JArr(a) == [k |-> "arr", a |-> a]
JObj(o) == [k |-> "obj", o |-> o]
JBool(b) == [k |-> "bool", b |-> b]
JBytes(b) == [k |-> "bytes", b |-> b]

EmptyDict == [x \in {} |-> JNull]

\* Python truth value of a value: None, 0, "", b"", [], {} and False are false.
Truthy(v) ==
    CASE v.k = "null" -> FALSE
      [] v.k = "str" -> v.s # <<>>
      [] v.k = "num" -> v.n # 0
      [] v.k = "arr" -> v.a # <<>>
      [] v.k = "obj" -> DOMAIN v.o # {}
      [] v.k = "bool" -> v.b
      [] v.k = "bytes" -> v.b # <<>>

\* dict.get(key): the value, or None when the key is missing.
Get(d, key) == IF key \in DOMAIN d THEN d[key] ELSE JNull

\* The expression `chunk[key] if chunk.get(key) else None`.
FieldOrNone(d, key) == IF Truthy(Get(d, key)) THEN d[key] ELSE JNull

\* dict[key] = value on a dict held as a function.
DictSet(d, key, value) ==
    [x \in DOMAIN d \cup {key} |-> IF x = key THEN value ELSE d[x]]

\* The dict built from a list of keys by `key: chunk[key] if chunk.get(key) else None`.
Snapshot(chunk, keys) == JObj([x \in keys |-> FieldOrNone(chunk, x)])

(***************************************************************************)
(* bytes.decode("utf-8") on the byte symbols.                              *)
(***************************************************************************)
LF == "LF"
Lead == "C3"
Cont == "A9"
EAcute == "U+E9"

RECURSIVE Utf8Valid(_)
Utf8Valid(bs) ==
    IF bs = <<>> THEN TRUE
    ELSE IF Head(bs) = Lead
         THEN Len(bs) >= 2 /\ bs[2] = Cont /\ Utf8Valid(Tail(Tail(bs)))
         ELSE Head(bs) # Cont /\ Utf8Valid(Tail(bs))

\* The decoded str of a valid byte string.
RECURSIVE Utf8Decode(_)
Utf8Decode(bs) ==
    IF bs = <<>> THEN <<>>
    ELSE IF Head(bs) = Lead
         THEN <<EAcute>> \o Utf8Decode(Tail(Tail(bs)))
         ELSE <<Head(bs)>> \o Utf8Decode(Tail(bs))

(***************************************************************************)
(* buffer.split(b"\n\n", 1): the position of the first delimiter, 0 when   *)
(* the buffer holds none.                                                  *)
(***************************************************************************)
DelimPositions(buf) ==
    {i \in 1..(Len(buf) - 1) : buf[i] = LF /\ buf[i + 1] = LF}

HasDelim(buf) == DelimPositions(buf) # {}

FirstDelim(buf) ==
    CHOOSE i \in DelimPositions(buf) : \A j \in DelimPositions(buf) : i <= j

SplitData(buf) == SubSeq(buf, 1, FirstDelim(buf) - 1)
SplitRest(buf) == SubSeq(buf, FirstDelim(buf) + 2, Len(buf))

(***************************************************************************)
(* The JSON texts of the model and json.loads.  An object symbol is the    *)
(* whole text of one JSON object.  An opening symbol is the text of a      *)
(* message event up to and including the opening quote of its answer; the  *)
(* characters that follow are the answer, and Close is the closing quote   *)
(* and brace:  am(c1  a  U+E9  ")   reads                                  *)
(*   {"event":"agent_message","conversation_id":"c1","answer":"a\u00e9"}     *)
(***************************************************************************)
Cid1 == JStr(<<"c1">>)
Cid2 == JStr(<<"c2">>)

Close == "\")"
AnswerChars == {"a", EAcute}

OpenText ==
    ( "am(c1"  :> [event |-> JStr(<<"agent_message">>), conversation_id |-> Cid1] ) @@
    ( "am(c2"  :> [event |-> JStr(<<"agent_message">>), conversation_id |-> Cid2] ) @@
    ( "msg(c1" :> [event |-> JStr(<<"message">>), conversation_id |-> Cid1] ) @@
    ( "msg(c2" :> [event |-> JStr(<<"message">>), conversation_id |-> Cid2] )

Resources == JArr(<<JObj([document_name |-> JStr(<<"doc">>), position |-> JNum(1)])>>)

ObjText ==
    ( "{}" :> EmptyDict ) @@
    ( "{ping}" :> [event |-> JStr(<<"ping">>)] ) @@
    ( "{thought}" :> [event |-> JStr(<<"agent_thought">>),
                      tool |-> JStr(<<"dalle">>),
                      tool_input |-> JStr(<<"cat">>)] ) @@
    ( "{thought0}" :> [event |-> JStr(<<"agent_thought">>),
                       tool |-> JStr(<<>>)] ) @@
    ( "{end}" :> [event |-> JStr(<<"message_end">>),
                  metadata |-> JObj([retriever_resources |-> Resources])] ) @@
    ( "{end0}" :> [event |-> JStr(<<"message_end">>),
                   metadata |-> JObj(EmptyDict)] ) @@
    ( "{file}" :> [event |-> JStr(<<"message_file">>),
                   id |-> JStr(<<"f1">>),
                   type |-> JStr(<<"image">>),
                   belongs_to |-> JStr(<<"assistant">>),
                   url |-> JStr(<<"/files/f1">>),
                   conversation_id |-> Cid1] ) @@
    ( "{ws}" :> [event |-> JStr(<<"workflow_started">>),
                 task_id |-> JStr(<<"t1">>),
                 workflow_run_id |-> JStr(<<"r1">>),
                 data |-> JObj([id |-> JStr(<<"r1">>), sequence_number |-> JNum(1)])] ) @@
    ( "{ws2}" :> [event |-> JStr(<<"workflow_started">>),
                  task_id |-> JStr(<<"t2">>)] ) @@
    ( "{we}" :> [event |-> JStr(<<"workflow_ended">>),
                 task_id |-> JStr(<<"t1">>),
                 workflow_run_id |-> JStr(<<"r1">>),
                 status |-> JStr(<<"succeeded">>),
                 total_steps |-> JNum(2)] ) @@
    ( "{ns1}" :> [event |-> JStr(<<"node_started">>),
                  task_id |-> JStr(<<"t1">>),
                  node_id |-> JStr(<<"n1">>),
                  index |-> JNum(1)] ) @@
    ( "{ns2}" :> [event |-> JStr(<<"node_started">>),
                  task_id |-> JStr(<<"t1">>),
                  node_id |-> JStr(<<"n2">>),
                  index |-> JNum(2),
                  predecessor_node_id |-> JStr(<<"n1">>)] ) @@
    ( "{nf}" :> [event |-> JStr(<<"node_finished">>),
                 task_id |-> JStr(<<"t1">>),
                 node_id |-> JStr(<<"n1">>),
                 status |-> JStr(<<"succeeded">>),
                 total_tokens |-> JNum(7)] ) @@
    ( "{ns0}" :> [event |-> JStr(<<"node_started">>),
                  task_id |-> JStr(<<"t1">>),
                  node_id |-> JStr(<<"n0">>),
                  index |-> JNum(0)] ) @@
    ( "{nf0}" :> [event |-> JStr(<<"node_finished">>),
                  task_id |-> JStr(<<"t1">>),
                  node_id |-> JStr(<<"n0">>),
                  error |-> JStr(<<>>),
                  outputs |-> JObj(EmptyDict),
                  total_tokens |-> JNum(0)] ) @@
    ( "{am:noanswer}" :> [event |-> JStr(<<"agent_message">>),
                          conversation_id |-> Cid1] ) @@
    ( "{am:nocid}" :> [event |-> JStr(<<"agent_message">>),
                       answer |-> JStr(<<"a">>)] ) @@
    ( "{msg:noanswer}" :> [event |-> JStr(<<"message">>),
                           conversation_id |-> Cid1] ) @@
    ( "{msg:nocid}" :> [event |-> JStr(<<"message">>),
                        answer |-> JStr(<<"a">>)] ) @@
    ( "{end:nometa}" :> [event |-> JStr(<<"message_end">>)] )

\* json.loads(s) succeeds exactly on the JSON texts.
IsJson(s) ==
    \/ Len(s) = 1 /\ s[1] \in DOMAIN ObjText
    \/ /\ Len(s) >= 2
       /\ s[1] \in DOMAIN OpenText
       /\ s[Len(s)] = Close
       /\ \A i \in 2..(Len(s) - 1) : s[i] \in AnswerChars

\* The dict json.loads(s) returns for a JSON text s.
JsonLoads(s) ==
    IF Len(s) = 1
    THEN ObjText[s[1]]
    ELSE DictSet(OpenText[s[1]], "answer", JStr(SubSeq(s, 2, Len(s) - 1)))

Prefix == "data:"

\* decoded_r.startswith("data:")
StartsWithData(s) == Len(s) >= 1 /\ s[1] = Prefix

\* decoded_r[5:]
AfterPrefix(s) == Tail(s)

(***************************************************************************)
(* The aggregate of a streaming processor: its locals conversation_id,     *)
(* response_text and response_data, and the exception that left the loop   *)
(* ("none" while none did).                                                *)
(***************************************************************************)
NewAggregate ==
    [conversation_id |-> JStr(<<>>),
     response_text |-> <<>>,
     response_data |-> EmptyDict,
     raised |-> "none"]

Raise(a, e) == [a EXCEPT !.raised = e]

\* str.rstrip("/")
RECURSIVE RStrip(_)
RStrip(s) ==
    IF s # <<>> /\ s[Len(s)] = "/" THEN RStrip(SubSeq(s, 1, Len(s) - 1)) ELSE s

\* response_data[key] = response_data.get(key, []) + [item]
ListAppend(d, key, item) ==
    DictSet(d, key, JArr((IF key \in DOMAIN d THEN d[key].a ELSE <<>>) \o <<item>>))

\* FoldMessage keeping the first conversation_id it was given.
FoldMessageFirstWins(a, chunk) ==
    IF "conversation_id" \notin DOMAIN chunk THEN Raise(a, "KeyError")
    ELSE IF "answer" \notin DOMAIN chunk THEN Raise(a, "KeyError")
    ELSE IF chunk["answer"].k # "str" THEN Raise(a, "TypeError")
    ELSE [a EXCEPT !.conversation_id = IF Truthy(@) THEN @ ELSE chunk["conversation_id"],
                   !.response_text = @ \o chunk["answer"].s]

\* FoldMessage with response_text = chunk["answer"] in place of +=.
FoldMessageReplaces(a, chunk) ==
    IF "conversation_id" \notin DOMAIN chunk THEN Raise(a, "KeyError")
    ELSE IF "answer" \notin DOMAIN chunk THEN Raise(a, "KeyError")
    ELSE IF chunk["answer"].k # "str" THEN Raise(a, "TypeError")
    ELSE [a EXCEPT !.conversation_id = chunk["conversation_id"],
                   !.response_text = chunk["answer"].s]

\* conversation_id = chunk["conversation_id"]; response_text += chunk["answer"]
FoldMessage(a, chunk) ==
    IF "conversation_id" \notin DOMAIN chunk THEN Raise(a, "KeyError")
    ELSE IF "answer" \notin DOMAIN chunk THEN Raise(a, "KeyError")
    ELSE IF chunk["answer"].k # "str" THEN Raise(a, "TypeError")
    ELSE [a EXCEPT !.conversation_id = chunk["conversation_id"],
                   !.response_text = @ \o chunk["answer"].s]

\* The message_end branch, the same in both processors.
FoldMessageEnd(a, chunk) ==
    IF "metadata" \notin DOMAIN chunk THEN Raise(a, "KeyError")
    ELSE IF chunk["metadata"].k # "obj" THEN Raise(a, "AttributeError")
    ELSE IF Truthy(Get(chunk["metadata"].o, "retriever_resources"))
         THEN [a EXCEPT !.response_data =
                   DictSet(@, "retriever_resources",
                           chunk["metadata"].o["retriever_resources"])]
         ELSE a

FoldAgentThought(a, chunk) ==
    LET d1 == IF Truthy(Get(chunk, "tool"))
              THEN DictSet(a.response_data, "tool", chunk["tool"])
              ELSE a.response_data
        d2 == IF Truthy(Get(chunk, "tool_input"))
              THEN DictSet(d1, "tool_input", chunk["tool_input"])
              ELSE d1
    IN  [a EXCEPT !.response_data = d2]

FileKeys == {"url", "id", "type", "belongs_to", "conversation_id"}

FoldMessageFile(base_url, a, chunk) ==
    LET file_obj == JObj(DictSet(Snapshot(chunk, FileKeys).o, "base_url",
                                 JStr(RStrip(base_url))))
    IN  [a EXCEPT !.response_data = ListAppend(@, "files", file_obj)]

\* AgentFold folding a message event like an agent_message event.
AgentFoldLoose(base_url, a, chunk) ==
    IF "event" \notin DOMAIN chunk THEN Raise(a, "KeyError")
    ELSE LET event_type == chunk["event"]
         IN  CASE event_type \in {JStr(<<"agent_message">>), JStr(<<"message">>)} ->
                      FoldMessage(a, chunk)
               [] event_type = JStr(<<"agent_thought">>) -> FoldAgentThought(a, chunk)
               [] event_type = JStr(<<"message_end">>) -> FoldMessageEnd(a, chunk)
               [] event_type = JStr(<<"message_file">>) ->
                      FoldMessageFile(base_url, a, chunk)
               [] OTHER -> a

\* The event dispatch of process_agent_response on one parsed chunk.
AgentFold(base_url, a, chunk) ==
    IF "event" \notin DOMAIN chunk THEN Raise(a, "KeyError")
    ELSE LET event_type == chunk["event"]
         IN  CASE event_type = JStr(<<"agent_message">>) -> FoldMessage(a, chunk)
               [] event_type = JStr(<<"agent_thought">>) -> FoldAgentThought(a, chunk)
               [] event_type = JStr(<<"message_end">>) -> FoldMessageEnd(a, chunk)
               [] event_type = JStr(<<"message_file">>) ->
                      FoldMessageFile(base_url, a, chunk)
               [] OTHER -> a

WorkflowStartedKeys ==
    {"task_id", "workflow_run_id", "data", "id", "workflow_id",
     "sequence_number", "created_at"}

WorkflowEndedKeys ==
    {"task_id", "workflow_run_id", "data", "id", "workflow_id", "status",
     "outputs", "error", "elapsed_time", "total_tokens", "total_steps",
     "created_at", "finished_at"}

NodeStartedKeys ==
    {"task_id", "workflow_run_id", "data", "id", "node_id", "node_type",
     "title", "index", "predecessor_node_id", "inputs", "created_at"}

NodeFinishedKeys ==
    NodeStartedKeys \cup
    {"process_data", "outputs", "status", "error", "elapsed_time",
     "execution_metadata", "total_tokens", "total_price", "currency"}

\* response_data[key] = { ... snapshot of chunk ... }
FoldOverwrite(a, chunk, key, keys) ==
    [a EXCEPT !.response_data = DictSet(@, key, Snapshot(chunk, keys))]

\* FoldAppend forgetting the list built so far.
FoldAppendFresh(a, chunk, key, keys) ==
    [a EXCEPT !.response_data = DictSet(@, key, JArr(<<Snapshot(chunk, keys)>>))]

\* response_data[key] = response_data.get(key, []) + [{ ... snapshot ... }]
FoldAppend(a, chunk, key, keys) ==
    [a EXCEPT !.response_data = ListAppend(@, key, Snapshot(chunk, keys))]

\* The event dispatch of process_workflow_response on one parsed chunk.
WorkflowFold(a, chunk) ==
    IF "event" \notin DOMAIN chunk THEN Raise(a, "KeyError")
    ELSE LET event_type == chunk["event"]
         IN  CASE event_type = JStr(<<"message">>) -> FoldMessage(a, chunk)
               [] event_type = JStr(<<"message_end">>) -> FoldMessageEnd(a, chunk)
               [] event_type = JStr(<<"workflow_started">>) ->
                      FoldOverwrite(a, chunk, "workflow_started", WorkflowStartedKeys)
               [] event_type = JStr(<<"workflow_ended">>) ->
                      FoldOverwrite(a, chunk, "workflow_ended", WorkflowEndedKeys)
               [] event_type = JStr(<<"node_started">>) ->
                      FoldAppend(a, chunk, "node_started", NodeStartedKeys)
               [] event_type = JStr(<<"node_finished">>) ->
                      FoldAppend(a, chunk, "node_finished", NodeFinishedKeys)
               [] OTHER -> a

(***************************************************************************)
(* One pass of the `async for r in response.content.iter_any()` loop.      *)
(* loc holds the locals: buffer and the aggregate agg.  The result also    *)
(* says how the pass ended (disp) and which chunk it parsed:               *)
(*   "wait"         no delimiter in the buffer, `continue`                 *)
(*   "undecodable"  data.decode raised UnicodeDecodeError; the handler     *)
(*                  evaluates data + "\n\n" + buffer, bytes + str, which   *)
(*                  raises TypeError out of the processor                  *)
(*   "noprefix"     the record does not start with data:, `continue`       *)
(*   "badjson"      json.loads raised JSONDecodeError, `continue`          *)
(*   "folded"       the chunk went through the event dispatch              *)
(***************************************************************************)
NewLocals == [buffer |-> <<>>, agg |-> NewAggregate]

\* buffer += r and the split of the first record off the buffer.
Reassemble(buffer, r) ==
    LET buf == buffer \o r
    IN  IF ~HasDelim(buf)
        THEN [buffer |-> buf, disp |-> "wait", decoded_r |-> <<>>]
        ELSE IF ~Utf8Valid(SplitData(buf))
             THEN [buffer |-> SplitRest(buf), disp |-> "undecodable",
                   decoded_r |-> <<>>]
             ELSE [buffer |-> SplitRest(buf), disp |-> "record",
                   decoded_r |-> Utf8Decode(SplitData(buf))]

\* The prefix test and json.loads of one decoded record.
DecodeRecord(decoded_r) ==
    IF ~StartsWithData(decoded_r) THEN [disp |-> "noprefix", chunk |-> EmptyDict]
    ELSE IF ~IsJson(AfterPrefix(decoded_r))
         THEN [disp |-> "badjson", chunk |-> EmptyDict]
         ELSE [disp |-> "folded", chunk |-> JsonLoads(AfterPrefix(decoded_r))]

AgentPass(base_url, loc, r) ==
    LET re == Reassemble(loc.buffer, r)
        de == DecodeRecord(re.decoded_r)
    IN  CASE re.disp = "wait" ->
                 [buffer |-> re.buffer, agg |-> loc.agg,
                  disp |-> "wait", chunk |-> EmptyDict]
          [] re.disp = "undecodable" ->
                 [buffer |-> re.buffer, agg |-> Raise(loc.agg, "TypeError"),
                  disp |-> "undecodable", chunk |-> EmptyDict]
          [] OTHER ->
                 [buffer |-> re.buffer,
                  agg |-> IF de.disp = "folded"
                          THEN AgentFold(base_url, loc.agg, de.chunk)
                          ELSE loc.agg,
                  disp |-> de.disp, chunk |-> de.chunk]

WorkflowPass(loc, r) ==
    LET re == Reassemble(loc.buffer, r)
        de == DecodeRecord(re.decoded_r)
    IN  CASE re.disp = "wait" ->
                 [buffer |-> re.buffer, agg |-> loc.agg,
                  disp |-> "wait", chunk |-> EmptyDict]
          [] re.disp = "undecodable" ->
                 [buffer |-> re.buffer, agg |-> Raise(loc.agg, "TypeError"),
                  disp |-> "undecodable", chunk |-> EmptyDict]
          [] OTHER ->
                 [buffer |-> re.buffer,
                  agg |-> IF de.disp = "folded"
                          THEN WorkflowFold(loc.agg, de.chunk)
                          ELSE loc.agg,
                  disp |-> de.disp, chunk |-> de.chunk]

(***************************************************************************)
(* The bodies a server can send.  A record is a byte string without its    *)
(* delimiter; a stream is a run of at most MaxRecords records, each        *)
(* followed by the delimiter, and then possibly an unterminated rest.      *)
(***************************************************************************)
Delim == <<LF, LF>>

AgentMessage1 == <<Prefix, "am(c1", "a", Close>>
AgentMessage2 == <<Prefix, "am(c2", Lead, Cont, Close>>
Message1 == <<Prefix, "msg(c1", "a", Close>>
Message2 == <<Prefix, "msg(c2", Lead, Cont, Close>>
BadJsonRecord == <<Prefix, "{oops">>
PingLine == <<"event: ping">>
TruncatedRecord == <<Prefix, "am(c1", Lead>>

\* The records a stream of the given mode is made of.
Records(type) ==
    IF type = "Agent"
    THEN {AgentMessage1, AgentMessage2, BadJsonRecord, PingLine, TruncatedRecord,
          <<Prefix, "{}">>, <<Prefix, "{thought}">>, <<Prefix, "{end}">>,
          <<Prefix, "{file}">>, <<Prefix, "{ns1}">>}
    ELSE {Message1, Message2, BadJsonRecord, TruncatedRecord,
          <<Prefix, "{}">>, <<Prefix, "{ws}">>, <<Prefix, "{ws2}">>,
          <<Prefix, "{we}">>, <<Prefix, "{ns1}">>, <<Prefix, "{ns2}">>,
          <<Prefix, "{nf}">>}

Rests == {<<>>, <<Prefix, "am(c1", "a">>}

RECURSIVE Terminated(_, _)
Terminated(type, n) ==
    IF n = 0 THEN {<<>>}
    ELSE Terminated(type, n - 1)
         \cup {s \o rec \o Delim : s \in Terminated(type, n - 1), rec \in Records(type)}

\* valid, malformed, valid: three agent_message records.
SandwichStream ==
    AgentMessage1 \o Delim \o BadJsonRecord \o Delim \o AgentMessage2 \o Delim

\* workflow_started, two node_started, workflow_ended.
WorkflowRunStream ==
    <<Prefix, "{ws}">> \o Delim \o <<Prefix, "{ns1}">> \o Delim
    \o <<Prefix, "{ns2}">> \o Delim \o <<Prefix, "{we}">> \o Delim

\* A run that starts twice: workflow_started, two node_started, workflow_started.
WorkflowRestartStream ==
    <<Prefix, "{ws}">> \o Delim \o <<Prefix, "{ns1}">> \o Delim
    \o <<Prefix, "{ns2}">> \o Delim \o <<Prefix, "{ws2}">> \o Delim

\* A recognized event that lacks a field its branch reads, between two
\* valid message events.
MissingFieldStreams(type) ==
    IF type = "Agent"
    THEN {AgentMessage1 \o Delim \o <<Prefix, x>> \o Delim \o AgentMessage2 \o Delim :
            x \in {"{am:noanswer}", "{am:nocid}", "{end:nometa}"}}
    ELSE {Message1 \o Delim \o <<Prefix, x>> \o Delim \o Message2 \o Delim :
            x \in {"{msg:noanswer}", "{msg:nocid}", "{end:nometa}"}}

\* Workflow events whose fields carry 0, "" and {}.
FalsyFieldStream ==
    <<Prefix, "{ns0}">> \o Delim \o <<Prefix, "{nf0}">> \o Delim

\* Events of kinds the mode's dispatch has no branch for, after a message.
ForeignKindStream(type) ==
    IF type = "Agent"
    THEN AgentMessage1 \o Delim \o Message2 \o Delim
         \o <<Prefix, "{ws}">> \o Delim \o <<Prefix, "{ping}">> \o Delim
    ELSE Message1 \o Delim \o AgentMessage2 \o Delim
         \o <<Prefix, "{thought}">> \o Delim \o <<Prefix, "{file}">> \o Delim

Streams(type) ==
    {s \o rest : s \in Terminated(type, MaxRecords), rest \in Rests}
    \cup (IF type = "Agent" THEN {SandwichStream}
          ELSE {WorkflowRunStream, WorkflowRestartStream, FalsyFieldStream})
    \cup MissingFieldStreams(type)
    \cup {ForeignKindStream(type)}

SampleStreams ==
    {<<>>,
     AgentMessage1 \o Delim \o <<Prefix, "{thought0}">> \o Delim,
     Message1 \o Delim \o <<Prefix, "{end0}">> \o Delim,
     <<Prefix, "{ping}">> \o Delim}

(***************************************************************************)
(* An HTTP response: its status, whether response.json() succeeds on it    *)
(* (aiohttp raises ContentTypeError, a ClientResponseError, when the body  *)
(* is not served as JSON), the value json() returns, and the body bytes    *)
(* response.content yields.                                                *)
(***************************************************************************)
SseBody(stream) == [json |-> FALSE, value |-> EmptyDict, bytes |-> stream]
JsonBody(sym, value) == [json |-> TRUE, value |-> value, bytes |-> <<sym>>]

ChatbotBody ==
    JsonBody("{c9 ok}", [conversation_id |-> JStr(<<"c9">>), answer |-> JStr(<<"ok">>)])
ErrorBody ==
    JsonBody("{error}", [code |-> JStr(<<"invalid_param">>), status |-> JNum(400)])
HtmlBody == [json |-> FALSE, value |-> EmptyDict, bytes |-> <<"<html>">>]

Statuses == {200, 201, 404, 500}

ChatResponses ==
    {[status |-> st, body |-> b] :
        st \in Statuses,
        b \in {ChatbotBody, ErrorBody, HtmlBody} \cup {SseBody(s) : s \in SampleStreams}}

StreamResponses(type) == {[status |-> 200, body |-> SseBody(s)] : s \in Streams(type)}

UploadResponses ==
    {[status |-> 201, body |-> JsonBody("{id}", [id |-> JStr(<<"f9">>)])],
     [status |-> 201, body |-> JsonBody("{id0}", [id |-> JStr(<<>>)])],
     [status |-> 413, body |-> ErrorBody],
     [status |-> 502, body |-> HtmlBody]}

\* response.raise_for_status() raises ClientResponseError.
RaisesForStatus(status) == status >= 400

(***************************************************************************)
(* The request: make_payloads and the conversation_id line of invoke.      *)
(***************************************************************************)
User == JStr(<<"user-1">>)

Streaming(type) == type \in {"Agent", "Workflow"}

\* The payloads dict literal with response_mode "blocking" in every mode.
BasePayloadsBlocking(type, text, inputs) ==
    [inputs |-> IF Truthy(inputs) THEN inputs ELSE JObj(EmptyDict),
     query |-> text,
     response_mode |-> JStr(<<"blocking">>),
     user |-> User,
     auto_generate_name |-> JBool(FALSE)]

\* The payloads dict literal of make_payloads.
BasePayloads(type, text, inputs) ==
    [inputs |-> IF Truthy(inputs) THEN inputs ELSE JObj(EmptyDict),
     query |-> text,
     response_mode |-> IF Streaming(type) THEN JStr(<<"streaming">>)
                       ELSE JStr(<<"blocking">>),
     user |-> User,
     auto_generate_name |-> JBool(FALSE)]

\* WithImage without the dummy query of lines 51-52.
WithImageKeepsQuery(payloads, uploaded_image_id) ==
    IF ~Truthy(uploaded_image_id) THEN payloads
    ELSE DictSet(payloads, "files",
                 JArr(<<JObj([type |-> JStr(<<"image">>),
                              transfer_method |-> JStr(<<"local_file">>),
                              upload_file_id |-> uploaded_image_id])>>))

\* `if uploaded_image_id:` and the files entry and dummy query it guards.
WithImage(payloads, uploaded_image_id) ==
    IF ~Truthy(uploaded_image_id) THEN payloads
    ELSE LET files == JArr(<<JObj([type |-> JStr(<<"image">>),
                                   transfer_method |-> JStr(<<"local_file">>),
                                   upload_file_id |-> uploaded_image_id])>>)
             p1 == DictSet(payloads, "files", files)
         IN  IF ~Truthy(p1["query"]) THEN DictSet(p1, "query", JStr(<<".">>)) ELSE p1

\* WithConversation without the `and not start_as_new` of line 265.
WithConversationAlways(payloads, conversation_id, start_as_new) ==
    IF Truthy(conversation_id)
    THEN DictSet(payloads, "conversation_id", conversation_id)
    ELSE payloads

\* `if conversation_id and not start_as_new: payloads["conversation_id"] = ...`
WithConversation(payloads, conversation_id, start_as_new) ==
    IF Truthy(conversation_id) /\ ~start_as_new
    THEN DictSet(payloads, "conversation_id", conversation_id)
    ELSE payloads

(***************************************************************************)
(* The outcome of an invocation.                                           *)
(***************************************************************************)
NoResult ==
    [kind |-> "none", error |-> "none", conversation_id |-> JNull,
     text |-> JNull, metadata |-> EmptyDict]

Raised(e) == [NoResult EXCEPT !.kind = "raised", !.error = e]

Returned(conversation_id, text, metadata) ==
    [kind |-> "returned", error |-> "none", conversation_id |-> conversation_id,
     text |-> text, metadata |-> metadata]

\* upload_image once its response is there: the uploaded id, or what it raises.
UploadOutcome(resp) ==
    IF ~resp.body.json THEN [raised |-> "ContentTypeError", id |-> JNull]
    ELSE IF RaisesForStatus(resp.status)
         THEN [raised |-> "ClientResponseError", id |-> JNull]
         ELSE IF "id" \notin DOMAIN resp.body.value
              THEN [raised |-> "KeyError", id |-> JNull]
              ELSE [raised |-> "none", id |-> resp.body.value["id"]]

\* process_chatbot_response handing the body back as metadata.
ProcessChatbotWithBody(body) ==
    IF ~body.json THEN Raised("ContentTypeError")
    ELSE IF "conversation_id" \notin DOMAIN body.value THEN Raised("KeyError")
    ELSE IF "answer" \notin DOMAIN body.value THEN Raised("KeyError")
    ELSE Returned(body.value["conversation_id"], body.value["answer"], body.value)

\* process_chatbot_response
ProcessChatbot(body) ==
    IF ~body.json THEN Raised("ContentTypeError")
    ELSE IF "conversation_id" \notin DOMAIN body.value THEN Raised("KeyError")
    ELSE IF "answer" \notin DOMAIN body.value THEN Raised("KeyError")
    ELSE Returned(body.value["conversation_id"], body.value["answer"], EmptyDict)

\* process_textgenerator_response answering like the Chatbot processor.
ProcessTextGeneratorAnswers(verbose, body) ==
    IF verbose /\ ~body.json THEN Raised("ContentTypeError")
    ELSE Returned(JStr(<<>>), JStr(<<>>), EmptyDict)

\* process_textgenerator_response
ProcessTextGenerator(verbose, body) ==
    IF verbose /\ ~body.json THEN Raised("ContentTypeError")
    ELSE Raised("NotSupported")

\* StatusCheck without response.raise_for_status().
StatusCheckLogOnly(resp) ==
    IF resp.status # 200 /\ ~resp.body.json THEN "ContentTypeError"
    ELSE "none"

\* invoke from the status test to the call of the response processor:
\* what it raises before the processor is called, "none" when it calls it.
StatusCheck(resp) ==
    IF resp.status # 200 /\ ~resp.body.json THEN "ContentTypeError"
    ELSE IF RaisesForStatus(resp.status) THEN "ClientResponseError"
    ELSE "none"

(***************************************************************************)
(* State.                                                                  *)
(*   type, verbose, base_url   the DifyAgent instance                      *)
(*   arg        the arguments of invoke                                    *)
(*   pc         "called", "uploading" (awaiting the upload response),      *)
(*              "posting" (awaiting the chat response), "streaming"        *)
(*              (inside the loop of a streaming processor), "done"         *)
(*   payloads   the request body built so far                              *)
(*   response   the chat response, once received                          *)
(*   pos        how many body bytes response.content has yielded           *)
(*   loc        the locals of the streaming processor                      *)
(*   result     what invoke returned or raised                             *)
(* History:                                                                *)
(*   netdone    HTTP responses received so far                             *)
(*   entered    the response processor has been called                     *)
(*   nsplit     records split off the buffer so far                        *)
(*   folded     the chunks that reached the event dispatch, in order       *)
(*   last       how the last pass of the loop ended                        *)
(* A second invocation on the same instance:                               *)
(*   cur        which of the two coroutines is running, 1 or 2             *)
(*   other      the frame of the suspended coroutine: its arguments,       *)
(*              locals, position and history                               *)
(***************************************************************************)
VARIABLES type, verbose, base_url, arg, pc, payloads, response, pos, loc,
          result, netdone, entered, nsplit, folded, last, cur, other

vars == <<type, verbose, base_url, arg, pc, payloads, response, pos, loc,
          result, netdone, entered, nsplit, folded, last, cur, other>>

DifyType == {"Agent", "Chatbot", "TextGenerator", "Workflow"}

NoResponse == [status |-> 0, body |-> SseBody(<<>>)]
NoPass == [disp |-> "none", chunk |-> EmptyDict]

Args ==
    [conversation_id : {JNull, JStr(<<>>), Cid1},
     text : {JNull, JStr(<<>>), JStr(<<"hi">>)},
     image : {JNull, JBytes(<<"png">>)},
     inputs : {JNull, JObj([lang |-> JStr(<<"en">>)])},
     start_as_new : BOOLEAN]

InitCommon ==
    /\ base_url = <<"https://dify/v1", "/">>
    /\ pc = "called"
    /\ payloads = EmptyDict
    /\ response = NoResponse
    /\ pos = 0
    /\ loc = NewLocals
    /\ result = NoResult
    /\ netdone = 0
    /\ entered = FALSE
    /\ nsplit = 0
    /\ folded = <<>>
    /\ last = NoPass

\* The frame of a coroutine that has not been started: invoke's arguments
\* and the initial values of everything local to the call.
NewFrame(a) ==
    [arg |-> a, pc |-> "called", payloads |-> EmptyDict, response |-> NoResponse,
     pos |-> 0, loc |-> NewLocals, result |-> NoResult, netdone |-> 0,
     entered |-> FALSE, nsplit |-> 0, folded |-> <<>>, last |-> NoPass]

\* No second invocation.
NoFrame == [NewFrame(JNull) EXCEPT !.pc = "none"]

Init ==
    /\ type \in DifyType
    /\ verbose \in BOOLEAN
    /\ arg \in Args
    /\ InitCommon
    /\ cur = 1
    /\ other = NoFrame

\* invoke up to its first network wait: make_payloads builds the dict and,
\* with an image, awaits the upload; without one the chat request goes out.
InvokeStart ==
    /\ pc = "called"
    /\ LET p0 == BasePayloads(type, arg.text, arg.inputs)
       IN  IF Truthy(arg.image)
           THEN /\ payloads' = p0
                /\ pc' = "uploading"
           ELSE /\ payloads' = WithConversation(p0, arg.conversation_id, arg.start_as_new)
                /\ pc' = "posting"
    /\ UNCHANGED <<type, verbose, base_url, arg, response, pos, loc, result,
                   netdone, entered, nsplit, folded, last, cur, other>>

\* The upload response arrives: upload_image finishes, make_payloads returns,
\* and the chat request goes out.
UploadResponse ==
    /\ pc = "uploading"
    /\ \E resp \in UploadResponses :
        /\ netdone' = netdone + 1
        /\ LET up == UploadOutcome(resp)
           IN  IF up.raised # "none"
               THEN /\ pc' = "done"
                    /\ result' = Raised(up.raised)
                    /\ UNCHANGED payloads
               ELSE /\ pc' = "posting"
                    /\ payloads' = WithConversation(WithImage(payloads, up.id),
                                                    arg.conversation_id, arg.start_as_new)
                    /\ UNCHANGED result
        /\ UNCHANGED <<type, verbose, base_url, arg, response, pos, loc,
                       entered, nsplit, folded, last, cur, other>>

\* The chat response arrives: the status test, raise_for_status, and the call
\* of the response processor, up to its first read of a body fragment.
PostResponse(responses) ==
    /\ pc = "posting"
    /\ \E resp \in responses :
        /\ netdone' = netdone + 1
        /\ response' = resp
        /\ IF StatusCheck(resp) # "none"
           THEN /\ pc' = "done"
                /\ result' = Raised(StatusCheck(resp))
                /\ UNCHANGED <<entered, pos, loc>>
           ELSE /\ entered' = TRUE
                /\ IF Streaming(type)
                   THEN /\ pc' = "streaming"
                        /\ loc' = NewLocals
                        /\ pos' = IF resp.status # 200 THEN Len(resp.body.bytes) ELSE 0
                        /\ UNCHANGED result
                   ELSE /\ pc' = "done"
                        /\ result' = IF type = "Chatbot"
                                     THEN ProcessChatbot(resp.body)
                                     ELSE ProcessTextGenerator(verbose, resp.body)
                        /\ UNCHANGED <<pos, loc>>
        /\ UNCHANGED <<type, verbose, base_url, arg, payloads, nsplit, folded, last, cur, other>>

\* The loop body of the streaming processor on the next fragment, the next n
\* bytes of the body.
ReadFragment ==
    /\ pc = "streaming"
    /\ \E n \in 1..(Len(response.body.bytes) - pos) :
        \E out \in {IF type = "Agent"
                    THEN AgentPass(base_url, loc, SubSeq(response.body.bytes, pos + 1, pos + n))
                    ELSE WorkflowPass(loc, SubSeq(response.body.bytes, pos + 1, pos + n))} :
            /\ pos' = pos + n
            /\ loc' = [buffer |-> out.buffer, agg |-> out.agg]
            /\ last' = [disp |-> out.disp, chunk |-> out.chunk]
            /\ nsplit' = IF out.disp = "wait" THEN nsplit ELSE nsplit + 1
            /\ folded' = IF out.disp = "folded" THEN Append(folded, out.chunk) ELSE folded
            /\ IF out.agg.raised # "none"
               THEN /\ pc' = "done"
                    /\ result' = Raised(out.agg.raised)
               ELSE UNCHANGED <<pc, result>>
    /\ UNCHANGED <<type, verbose, base_url, arg, payloads, response, netdone, entered, cur, other>>

\* The body is exhausted: the loop ends and the processor returns its tuple.
StreamClose ==
    /\ pc = "streaming"
    /\ pos = Len(response.body.bytes)
    /\ pc' = "done"
    /\ result' = Returned(loc.agg.conversation_id, JStr(loc.agg.response_text),
                          loc.agg.response_data)
    /\ UNCHANGED <<type, verbose, base_url, arg, payloads, response, pos, loc,
                   netdone, entered, nsplit, folded, last, cur, other>>

Next ==
    \/ InvokeStart
    \/ UploadResponse
    \/ PostResponse(ChatResponses)
    \/ ReadFragment
    \/ StreamClose

Spec == Init /\ [][Next]_vars

(***************************************************************************)
(* The streaming processors on their own: a plain text request without an  *)
(* image, answered with status 200 and any stream of Streams.              *)
(***************************************************************************)
InitStream ==
    /\ type \in {"Agent", "Workflow"}
    /\ verbose = FALSE
    /\ arg = [conversation_id |-> JNull, text |-> JStr(<<"hi">>), image |-> JNull,
              inputs |-> JNull, start_as_new |-> FALSE]
    /\ InitCommon
    /\ cur = 1
    /\ other = NoFrame

NextStream ==
    \/ InvokeStart
    \/ PostResponse(StreamResponses(type))
    \/ ReadFragment
    \/ StreamClose

SpecStream == InitStream /\ [][NextStream]_vars

(***************************************************************************)
(* Two invocations on one instance.  Each call of invoke is a coroutine    *)
(* with its own arguments and locals; the event loop runs one coroutine at *)
(* a time and can switch to the other wherever the running one waits for   *)
(* the network, that is between any two steps above.  The running          *)
(* coroutine's frame is in the variables, the suspended one's in other;    *)
(* type, verbose and base_url are the fields of the instance both share.   *)
(***************************************************************************)
RunningFrame ==
    [arg |-> arg, pc |-> pc, payloads |-> payloads, response |-> response,
     pos |-> pos, loc |-> loc, result |-> result, netdone |-> netdone,
     entered |-> entered, nsplit |-> nsplit, folded |-> folded, last |-> last]

\* Resumed with the buffer being a field of the instance: the coroutine
\* finds in it what the coroutine that ran meanwhile left there.
ResumedSharedBuffer(own, running) ==
    [own EXCEPT !.loc.buffer = running.loc.buffer]

\* The frame a suspended coroutine resumes with: payloads, buffer,
\* conversation_id, response_text and response_data are locals of the call,
\* so it finds them as it left them, whatever the other coroutine did.
Resumed(own, running) == own

\* The event loop suspends the running coroutine and resumes the other one.
Switch ==
    /\ other.pc \notin {"none", "done"}
    /\ \E f \in {Resumed(other, RunningFrame)} :
        /\ arg' = f.arg
        /\ pc' = f.pc
        /\ payloads' = f.payloads
        /\ response' = f.response
        /\ pos' = f.pos
        /\ loc' = f.loc
        /\ result' = f.result
        /\ netdone' = f.netdone
        /\ entered' = f.entered
        /\ nsplit' = f.nsplit
        /\ folded' = f.folded
        /\ last' = f.last
    /\ other' = RunningFrame
    /\ cur' = 3 - cur
    /\ UNCHANGED <<type, verbose, base_url>>

\* The bodies the two invocations are answered with.
TwoStreams(mode) ==
    IF mode = "Agent"
    THEN {AgentMessage1 \o Delim, AgentMessage2 \o Delim,
          <<Prefix, "{thought}">> \o Delim \o <<Prefix, "{end}">> \o Delim}
    ELSE {Message1 \o Delim, Message2 \o Delim,
          <<Prefix, "{ws}">> \o Delim \o <<Prefix, "{ns1}">> \o Delim}

ChatbotBody2 ==
    JsonBody("{c8}", [conversation_id |-> JStr(<<"c8">>), answer |-> JStr(<<"no">>)])

TwoResponses(mode) ==
    IF Streaming(mode)
    THEN {[status |-> 200, body |-> SseBody(s)] : s \in TwoStreams(mode)}
    ELSE {[status |-> 200, body |-> ChatbotBody], [status |-> 200, body |-> ChatbotBody2],
          [status |-> 500, body |-> ErrorBody]}

InitTwo ==
    /\ type \in DifyType
    /\ verbose = FALSE
    /\ arg = [conversation_id |-> JNull, text |-> JStr(<<"hi">>), image |-> JNull,
              inputs |-> JNull, start_as_new |-> FALSE]
    /\ InitCommon
    /\ cur = 1
    /\ other = NewFrame([conversation_id |-> Cid1, text |-> JStr(<<>>), image |-> JNull,
                         inputs |-> JNull, start_as_new |-> FALSE])

NextTwo ==
    \/ InvokeStart
    \/ PostResponse(TwoResponses(type))
    \/ ReadFragment
    \/ StreamClose
    \/ Switch

SpecTwo == InitTwo /\ [][NextTwo]_vars

(***************************************************************************)
(* Reference notions the properties are stated with.                       *)
(***************************************************************************)
Finished == pc = "done"
ReturnedTuple == pc = "done" /\ result.kind = "returned"
Body == response.body.bytes
Metadata == loc.agg.response_data

\* The number of delimiters of a byte string, counted as split counts them.
RECURSIVE CountDelims(_)
CountDelims(bs) == IF ~HasDelim(bs) THEN 0 ELSE 1 + CountDelims(SplitRest(bs))

\* The delimiter-terminated records of a byte string, in order.
RECURSIVE RecordsOf(_)
RecordsOf(bs) ==
    IF ~HasDelim(bs) THEN <<>> ELSE <<SplitData(bs)>> \o RecordsOf(SplitRest(bs))

\* The event kind a record carries, "" when it carries none.
KindOf(rec) ==
    IF ~Utf8Valid(rec) THEN <<>>
    ELSE LET de == DecodeRecord(Utf8Decode(rec))
         IN  IF de.disp = "folded" /\ "event" \in DOMAIN de.chunk
             THEN de.chunk["event"].s
             ELSE <<>>

KindsIn(bs) == {KindOf(RecordsOf(bs)[i]) : i \in 1..Len(RecordsOf(bs))}

\* What the processor returns or raises when the whole body is one fragment.
WholePass(bs) ==
    IF type = "Agent" THEN AgentPass(base_url, NewLocals, bs)
    ELSE WorkflowPass(NewLocals, bs)

OneFragmentResult(bs) ==
    IF bs = <<>> THEN Returned(JStr(<<>>), JStr(<<>>), EmptyDict)
    ELSE IF WholePass(bs).agg.raised # "none"
         THEN Raised(WholePass(bs).agg.raised)
         ELSE Returned(WholePass(bs).agg.conversation_id,
                       JStr(WholePass(bs).agg.response_text),
                       WholePass(bs).agg.response_data)

MessageKind == IF type = "Agent" THEN JStr(<<"agent_message">>) ELSE JStr(<<"message">>)

IsMessage(chunk) == "event" \in DOMAIN chunk /\ chunk["event"] = MessageKind

MessageIndexes == {i \in 1..Len(folded) : IsMessage(folded[i])}

FirstMessageId ==
    IF MessageIndexes = {} THEN JStr(<<>>)
    ELSE folded[CHOOSE i \in MessageIndexes : \A j \in MessageIndexes : i <= j]["conversation_id"]

LastMessageId ==
    IF MessageIndexes = {} THEN JStr(<<>>)
    ELSE folded[CHOOSE i \in MessageIndexes : \A j \in MessageIndexes : i >= j]["conversation_id"]

(***************************************************************************)
(* C1  Chunking independence: whatever the cuts, the tuple a streaming     *)
(* processor returns is the one it produces when the whole body arrives as *)
(* one fragment.                                                           *)
(***************************************************************************)
C1_ChunkingIndependence ==
    (ReturnedTuple /\ Streaming(type)) => result = OneFragmentResult(Body)

(***************************************************************************)
(* C2  No delimiter loss: when the stream closes, as many records were     *)
(* split off the buffer as the stream held delimiters, and the buffer      *)
(* holds no complete record any more.                                      *)
(***************************************************************************)
C2_NoDelimiterLoss ==
    (ReturnedTuple /\ Streaming(type))
        => (nsplit = CountDelims(Body) /\ ~HasDelim(loc.buffer))

(***************************************************************************)
(* C3  Drop-and-continue: in Agent mode the stream valid, malformed, valid *)
(* returns the first answer followed by the second answer.                 *)
(***************************************************************************)
C3_DropAndContinue ==
    (Finished /\ type = "Agent" /\ Body = SandwichStream)
        => (result.kind = "returned" /\ result.text = JStr(<<"a", EAcute>>))

(***************************************************************************)
(* C4  conversation_id, as claimed: the returned conversation_id is that   *)
(* of the first agent_message / message event folded.                      *)
(***************************************************************************)
C4_FirstWriteWins ==
    (ReturnedTuple /\ Streaming(type)) => result.conversation_id = FirstMessageId

(***************************************************************************)
(* C4  conversation_id, as the code has it: every folded agent_message /   *)
(* message event assigns its own conversation_id, so the returned          *)
(* conversation_id is that of the last such event folded, and the empty    *)
(* string when none was folded.                                            *)
(***************************************************************************)
C4_LastWriteWins ==
    /\ (pc = "streaming" /\ Streaming(type)) => loc.agg.conversation_id = LastMessageId
    /\ (ReturnedTuple /\ Streaming(type)) => result.conversation_id = LastMessageId

\* Two message events with different ids were folded and the second id is returned.
C4_Witness ==
    /\ ReturnedTuple
    /\ Cardinality(MessageIndexes) = 2
    /\ FirstMessageId = Cid1
    /\ LastMessageId = Cid2
    /\ result.conversation_id = Cid2

(***************************************************************************)
(* C5  A record that parses as JSON but has no event field is dropped:     *)
(* the invocation does not raise because of it.                            *)
(***************************************************************************)
C5_MissingEventDropped ==
    (last.disp = "folded" /\ "event" \notin DOMAIN last.chunk)
        => result.kind # "raised"

(***************************************************************************)
(* C6  A UTF-8 decode failure is never fatal: the candidate and its        *)
(* delimiter are back in the buffer and the invocation has not raised.     *)
(***************************************************************************)
C6_DecodeFailureNotFatal ==
    last.disp = "undecodable" => (result.kind # "raised" /\ HasDelim(loc.buffer))

(***************************************************************************)
(* C7  TextGenerator mode, as claimed: invoke fails with the unsupported-  *)
(* mode error before any HTTP response has been received.                  *)
(***************************************************************************)
C7_FailsBeforeNetwork ==
    (Finished /\ type = "TextGenerator")
        => (result.kind = "raised" /\ result.error = "NotSupported" /\ netdone = 0)

(***************************************************************************)
(* C7  TextGenerator mode, as the code has it: invoke never returns a      *)
(* tuple.  The unsupported-mode error is raised by the response processor, *)
(* so only after the chat response has been received with a status below   *)
(* 400; it is the error raised whenever the processor is entered and, in   *)
(* verbose mode, the body reads as JSON.  A failed upload, a status of 400 *)
(* or more and an unreadable body raise their own error instead.           *)
(***************************************************************************)
C7_FailsAfterResponse ==
    (Finished /\ type = "TextGenerator")
        => /\ result.kind = "raised"
           /\ result.error = "NotSupported"
                => (entered /\ netdone >= 1 /\ response.status \in {200, 201})
           /\ (entered /\ (~verbose \/ response.body.json))
                => result.error = "NotSupported"
           /\ ~entered => result.error \in {"ClientResponseError", "ContentTypeError", "KeyError"}

\* The unsupported-mode error was raised after an upload and the chat response.
C7_Witness ==
    /\ Finished
    /\ type = "TextGenerator"
    /\ result.error = "NotSupported"
    /\ netdone = 2
    /\ response.status = 200

\* aiohttp.ClientResponseError and its subclass ContentTypeError.
TransportErrors == {"ClientResponseError", "ContentTypeError"}

ListAt(d, key) == IF key \in DOMAIN d THEN d[key].a ELSE <<>>

\* The pass just taken folded an event of this kind.
FoldsNow(kind) ==
    /\ type = "Workflow"
    /\ pc = "streaming"
    /\ folded' = Append(folded, last'.chunk)
    /\ "event" \in DOMAIN last'.chunk
    /\ last'.chunk["event"] = JStr(<<kind>>)

\* v is an object over exactly these keys, made of the event's values and nulls.
FromEventAlone(v, chunk, keys) ==
    /\ v.k = "obj"
    /\ DOMAIN v.o = keys
    /\ \A x \in keys : v.o[x] = JNull \/ (x \in DOMAIN chunk /\ v.o[x] = chunk[x])
    /\ \A x \in keys \cap DOMAIN chunk : Truthy(chunk[x]) => v.o[x] = chunk[x]

GrowsByOne(key, keys) ==
    LET old == ListAt(Metadata, key)
    IN  /\ key \in DOMAIN Metadata'
        /\ Metadata'[key].k = "arr"
        /\ Len(Metadata'[key].a) = Len(old) + 1
        /\ SubSeq(Metadata'[key].a, 1, Len(old)) = old
        /\ FromEventAlone(Metadata'[key].a[Len(old) + 1], last'.chunk, keys)
        /\ \A x \in DOMAIN Metadata : x # key => Metadata'[x] = Metadata[x]

Replaces(key, keys) ==
    /\ key \in DOMAIN Metadata'
    /\ FromEventAlone(Metadata'[key], last'.chunk, keys)
    /\ \A x \in DOMAIN Metadata : x # key => Metadata'[x] = Metadata[x]

(***************************************************************************)
(* C9  Cardinality policy in Workflow mode.  A pass that folds a           *)
(* node_started (node_finished) event makes the list under that key one    *)
(* element longer, the earlier elements unchanged and the new one built    *)
(* from the event; a pass that folds a workflow_started (workflow_ended)   *)
(* event leaves under that key a single object built from that event       *)
(* alone: each field is the event's own value or null.                     *)
(***************************************************************************)
C9_Cardinality ==
    [][ /\ FoldsNow("node_started") => GrowsByOne("node_started", NodeStartedKeys)
        /\ FoldsNow("node_finished") => GrowsByOne("node_finished", NodeFinishedKeys)
        /\ FoldsNow("workflow_started") => Replaces("workflow_started", WorkflowStartedKeys)
        /\ FoldsNow("workflow_ended") => Replaces("workflow_ended", WorkflowEndedKeys)
      ]_vars

\* workflow_started, node_started, node_started, workflow_started were folded:
\* the list holds both node snapshots in order and the second workflow_started
\* snapshot has replaced the first.
C9_Witness ==
    /\ type = "Workflow"
    /\ folded = <<ObjText["{ws}"], ObjText["{ns1}"], ObjText["{ns2}"], ObjText["{ws2}"]>>
    /\ Metadata["workflow_started"] = Snapshot(ObjText["{ws2}"], WorkflowStartedKeys)
    /\ Len(ListAt(Metadata, "node_started")) = 2
    /\ Metadata["node_started"].a[1].o["node_id"] = JStr(<<"n1">>)
    /\ Metadata["node_started"].a[2].o["node_id"] = JStr(<<"n2">>)

WorkflowKinds == {"workflow_started", "workflow_ended", "node_started", "node_finished"}

(***************************************************************************)
(* C10  Metadata keys are lazy and exact in Workflow mode: the returned    *)
(* metadata holds key K, for K one of workflow_started, workflow_ended,    *)
(* node_started, node_finished, exactly when an event of kind K occurred   *)
(* in the stream; workflow_started, two node_started and workflow_ended    *)
(* give exactly these three keys, node_started of length 2.                *)
(***************************************************************************)
C10_LazyExactKeys ==
    (ReturnedTuple /\ type = "Workflow")
        => /\ \A K \in WorkflowKinds :
                K \in DOMAIN result.metadata <=> <<K>> \in KindsIn(Body)
           /\ Body = WorkflowRunStream
                => /\ DOMAIN result.metadata
                        = {"workflow_started", "node_started", "workflow_ended"}
                   /\ Len(result.metadata["node_started"].a) = 2

\* What is left of a byte string after its last delimiter.
RECURSIVE RestAfter(_)
RestAfter(bs) == IF ~HasDelim(bs) THEN bs ELSE RestAfter(SplitRest(bs))

\* The body is a non-empty run of valid agent_message records, each terminated.
OnlyAgentMessages(bs) ==
    /\ RecordsOf(bs) # <<>>
    /\ RestAfter(bs) = <<>>
    /\ \A i \in 1..Len(RecordsOf(bs)) : KindOf(RecordsOf(bs)[i]) = <<"agent_message">>

\* The answers of a sequence of agent_message records, concatenated in order.
RECURSIVE AnswersOf(_)
AnswersOf(recs) ==
    IF recs = <<>> THEN <<>>
    ELSE DecodeRecord(Utf8Decode(Head(recs))).chunk["answer"].s \o AnswersOf(Tail(recs))

(***************************************************************************)
(* C11  In Agent mode, for a stream made only of valid agent_message       *)
(* events, the returned text is the concatenation of all the events'       *)
(* answers in arrival order and the returned metadata is the empty map.    *)
(***************************************************************************)
C11_AgentTextConcatenation ==
    (ReturnedTuple /\ type = "Agent" /\ OnlyAgentMessages(Body))
        => /\ result.text = JStr(AnswersOf(RecordsOf(Body)))
           /\ result.metadata = EmptyDict

\* make_payloads has built the payloads dict (with an image, up to the upload).
PayloadsBuilt == pc # "called"

(***************************************************************************)
(* C12  The payloads make_payloads builds carry response_mode "streaming"  *)
(* exactly in the Agent and Workflow modes and "blocking" exactly in the   *)
(* Chatbot and TextGenerator modes, whatever text, image and inputs are;   *)
(* inputs is the empty map when none are given; and there is no files key  *)
(* when no image is given.                                                 *)
(***************************************************************************)
C12_ResponseMode ==
    PayloadsBuilt
        => /\ payloads["response_mode"] = JStr(<<"streaming">>)
                <=> type \in {"Agent", "Workflow"}
           /\ payloads["response_mode"] = JStr(<<"blocking">>)
                <=> type \in {"Chatbot", "TextGenerator"}
           /\ arg.inputs = JNull => payloads["inputs"] = JObj(EmptyDict)
           /\ arg.inputs # JNull => payloads["inputs"] = arg.inputs
           /\ arg.image = JNull => "files" \notin DOMAIN payloads

\* A Workflow request without image and inputs, about to be posted.
C12_Witness ==
    /\ pc = "posting"
    /\ type = "Workflow"
    /\ arg.image = JNull
    /\ arg.inputs = JNull
    /\ payloads["response_mode"] = JStr(<<"streaming">>)
    /\ payloads["inputs"] = JObj(EmptyDict)
    /\ "files" \notin DOMAIN payloads

\* invoke was given image bytes and its chat request has gone out.
ImageRequestOut ==
    /\ Truthy(arg.image)
    /\ pc \in {"posting", "streaming"} \/ (pc = "done" /\ response # NoResponse)

\* The query the claim describes: the text, or the one-character placeholder.
QueryOrPlaceholder == IF Truthy(arg.text) THEN arg.text ELSE JStr(<<".">>)

\* The payloads carry a files list of exactly one local_file image entry.
OneLocalFile ==
    /\ "files" \in DOMAIN payloads
    /\ payloads["files"].k = "arr"
    /\ Len(payloads["files"].a) = 1
    /\ payloads["files"].a[1].o["type"] = JStr(<<"image">>)
    /\ payloads["files"].a[1].o["transfer_method"] = JStr(<<"local_file">>)
    /\ Truthy(payloads["files"].a[1].o["upload_file_id"])

(***************************************************************************)
(* C13  As claimed: a request made with image bytes goes out with a query  *)
(* that is the given text when that is non-empty and the one-character     *)
(* placeholder when it is empty or None, together with a files list of     *)
(* exactly one local_file entry.                                           *)
(***************************************************************************)
C13_ImageNeverEmptyQuery ==
    ImageRequestOut => (payloads["query"] = QueryOrPlaceholder /\ OneLocalFile)

(***************************************************************************)
(* C13  As the code has it: a request made with image bytes goes out       *)
(* either with a files list of exactly one local_file entry, carrying the  *)
(* non-empty id the upload returned, and then its query is the given text  *)
(* when non-empty and the placeholder otherwise; or, when the upload       *)
(* returned an empty id, without a files key and with the query as given.  *)
(***************************************************************************)
C13_PlaceholderWhenUploaded ==
    ImageRequestOut
        => \/ OneLocalFile /\ payloads["query"] = QueryOrPlaceholder
           \/ "files" \notin DOMAIN payloads /\ payloads["query"] = arg.text

\* An image without text was uploaded and the request carries the placeholder.
C13_Witness ==
    /\ pc = "posting"
    /\ Truthy(arg.image)
    /\ arg.text = JNull
    /\ OneLocalFile
    /\ payloads["files"].a[1].o["upload_file_id"] = JStr(<<"f9">>)
    /\ payloads["query"] = JStr(<<".">>)

\* No pass of a streaming loop has been taken and none is under way.
LoopNeverEntered ==
    /\ pc # "streaming"
    /\ pos = 0
    /\ loc = NewLocals
    /\ nsplit = 0
    /\ folded = <<>>
    /\ last = NoPass

\* The body is JSON and carries the two fields process_chatbot_response reads.
ChatbotBodyComplete ==
    /\ response.body.json
    /\ {"conversation_id", "answer"} \subseteq DOMAIN response.body.value

(***************************************************************************)
(* C14  In Chatbot mode the fragment-reading and event-folding loop is     *)
(* never entered; whenever invoke returns, it returns the conversation_id  *)
(* and the answer of the one JSON body with the empty map as metadata; and *)
(* it does return once the processor is called on a JSON body carrying     *)
(* both fields.                                                            *)
(***************************************************************************)
C14_ChatbotBlocking ==
    type = "Chatbot"
        => /\ LoopNeverEntered
           /\ ReturnedTuple
                => /\ ChatbotBodyComplete
                   /\ result = Returned(response.body.value["conversation_id"],
                                        response.body.value["answer"], EmptyDict)
           /\ (Finished /\ entered /\ ChatbotBodyComplete) => ReturnedTuple

\* The body {"conversation_id": "c9", "answer": "ok"} gave ("c9", "ok", {}).
C14_Witness ==
    /\ type = "Chatbot"
    /\ Finished
    /\ response.body = ChatbotBody
    /\ result = Returned(JStr(<<"c9">>), JStr(<<"ok">>), EmptyDict)

\* An event of a recognized kind that lacks a field its branch reads.
LacksReadField(chunk) ==
    /\ "event" \in DOMAIN chunk
    /\ \/ /\ chunk["event"] = MessageKind
          /\ ~({"conversation_id", "answer"} \subseteq DOMAIN chunk)
       \/ /\ chunk["event"] = JStr(<<"message_end">>)
          /\ "metadata" \notin DOMAIN chunk

(***************************************************************************)
(* C15  An event of a recognized kind that lacks a field its fold rule     *)
(* reads (agent_message or message without conversation_id or answer,      *)
(* message_end without metadata) is never fatal: once such an event has    *)
(* reached the dispatch, the invocation still does not raise.              *)
(***************************************************************************)
C15_MissingFieldNotFatal ==
    (Streaming(type) /\ \E i \in 1..Len(folded) : LacksReadField(folded[i]))
        => result.kind # "raised"

\* The pass last taken folded an event of this kind in this mode.
JustFolded(mode, kind) ==
    /\ type = mode
    /\ last.disp = "folded"
    /\ "event" \in DOMAIN last.chunk
    /\ last.chunk["event"] = JStr(<<kind>>)

\* Each field of the snapshot v is the event's own value when the event
\* carries the field, and null only when it does not.
Faithful(v, chunk, keys) ==
    \A x \in keys : v.o[x] = IF x \in DOMAIN chunk THEN chunk[x] ELSE JNull

NewestOf(key) == Metadata[key].a[Len(Metadata[key].a)]

(***************************************************************************)
(* C16  Snapshot fields are faithful: in the snapshot recorded for a       *)
(* message_file, workflow_started, workflow_ended, node_started or         *)
(* node_finished event each field holds the event's own value whenever the *)
(* event carries that field, a carried 0, "", [], {} or false included,    *)
(* and is null only when the event lacks the field.                        *)
(***************************************************************************)
C16_FaithfulSnapshots ==
    /\ JustFolded("Agent", "message_file")
         => Faithful(NewestOf("files"), last.chunk, FileKeys)
    /\ JustFolded("Workflow", "workflow_started")
         => Faithful(Metadata["workflow_started"], last.chunk, WorkflowStartedKeys)
    /\ JustFolded("Workflow", "workflow_ended")
         => Faithful(Metadata["workflow_ended"], last.chunk, WorkflowEndedKeys)
    /\ JustFolded("Workflow", "node_started")
         => Faithful(NewestOf("node_started"), last.chunk, NodeStartedKeys)
    /\ JustFolded("Workflow", "node_finished")
         => Faithful(NewestOf("node_finished"), last.chunk, NodeFinishedKeys)

IsPrefix(s, t) == Len(s) <= Len(t) /\ SubSeq(t, 1, Len(s)) = s

Text == loc.agg.response_text

(***************************************************************************)
(* C17  The text only grows: over every step of an invocation the          *)
(* accumulated text is a prefix of the text after the step (so of the text *)
(* at every later point), and a step that changes it is a pass that folds  *)
(* an agent_message event in Agent mode or a message event in Workflow     *)
(* mode; the text returned when the stream closes is the accumulated text. *)
(***************************************************************************)
C17_TextOnlyGrows ==
    [][ /\ IsPrefix(Text, Text')
        /\ Text' # Text
             => /\ pc = "streaming"
                /\ folded' = Append(folded, last'.chunk)
                /\ IsMessage(last'.chunk)
        /\ (pc = "streaming" /\ pc' = "done" /\ result'.kind = "returned")
             => result'.text = JStr(Text)
      ]_vars

\* Two message events were folded and the text is the first answer followed
\* by the second.
C17_Witness ==
    /\ pc = "streaming"
    /\ Len(folded) = 2
    /\ IsMessage(folded[1])
    /\ IsMessage(folded[2])
    /\ Text = <<"a", EAcute>>

\* The event kinds the dispatch of the active mode has a branch for.
Vocabulary ==
    IF type = "Agent"
    THEN {JStr(<<"agent_message">>), JStr(<<"agent_thought">>),
          JStr(<<"message_end">>), JStr(<<"message_file">>)}
    ELSE {JStr(<<"message">>), JStr(<<"message_end">>),
          JStr(<<"workflow_started">>), JStr(<<"workflow_ended">>),
          JStr(<<"node_started">>), JStr(<<"node_finished">>)}

\* The pass just taken brought an event of a foreign kind to the dispatch.
DispatchesForeign ==
    /\ pc = "streaming"
    /\ folded' = Append(folded, last'.chunk)
    /\ "event" \in DOMAIN last'.chunk
    /\ last'.chunk["event"] \notin Vocabulary

(***************************************************************************)
(* C18  An event whose kind is not in the vocabulary of the active mode    *)
(* (agent_message in Workflow mode and node_started in Agent mode          *)
(* included) leaves conversation_id, text and metadata unchanged and       *)
(* raises no error: the loop goes on.                                      *)
(***************************************************************************)
C18_ForeignKindIgnored ==
    [][ DispatchesForeign
          => /\ loc'.agg = loc.agg
             /\ pc' = "streaming"
             /\ result' = NoResult
      ]_vars

\* Workflow mode: a message event, then an agent_message event carrying
\* another conversation_id and answer, which changed nothing.
C18_Witness ==
    /\ type = "Workflow"
    /\ pc = "streaming"
    /\ Len(folded) = 2
    /\ folded[2]["event"] = JStr(<<"agent_message">>)
    /\ folded[2]["conversation_id"] = Cid2
    /\ loc.agg.conversation_id = Cid1
    /\ Text = <<"a">>
    /\ Metadata = EmptyDict

\* One pass of the loop of the active mode's streaming processor.
Pass(l, r) == IF type = "Agent" THEN AgentPass(base_url, l, r) ELSE WorkflowPass(l, r)

\* The locals an invocation running alone can have after reading the first p
\* bytes of the body bs, over every way these bytes can arrive as fragments.
RECURSIVE SoloLocs(_, _)
SoloLocs(bs, p) ==
    IF p = 0 THEN {NewLocals}
    ELSE UNION {{[buffer |-> Pass(l, SubSeq(bs, q + 1, p)).buffer,
                  agg |-> Pass(l, SubSeq(bs, q + 1, p)).agg] :
                    l \in {x \in SoloLocs(bs, q) : x.agg.raised = "none"}} :
                q \in 0..(p - 1)}

\* What an invocation running alone can end with, given its response.
SoloResults(resp) ==
    IF StatusCheck(resp) # "none" THEN {Raised(StatusCheck(resp))}
    ELSE IF type = "Chatbot" THEN {ProcessChatbot(resp.body)}
    ELSE IF type = "TextGenerator" THEN {ProcessTextGenerator(verbose, resp.body)}
    ELSE {Returned(l.agg.conversation_id, JStr(l.agg.response_text), l.agg.response_data) :
            l \in {x \in SoloLocs(resp.body.bytes, Len(resp.body.bytes)) :
                     x.agg.raised = "none"}}
         \cup {Raised(l.agg.raised) :
                 l \in {x \in UNION {SoloLocs(resp.body.bytes, p) :
                                       p \in 1..Len(resp.body.bytes)} :
                          x.agg.raised # "none"}}

\* The frame f is one an invocation with f's arguments and f's response has
\* when it runs alone (for a request without an image).
AsAlone(f) ==
    /\ f.pc = "called" => f = NewFrame(f.arg)
    /\ f.pc # "called"
         => f.payloads = WithConversation(BasePayloads(type, f.arg.text, f.arg.inputs),
                                          f.arg.conversation_id, f.arg.start_as_new)
    /\ f.pc = "posting" => /\ f.response = NoResponse
                           /\ f.loc = NewLocals
                           /\ f.result = NoResult
    /\ f.pc = "streaming" => /\ f.loc \in SoloLocs(f.response.body.bytes, f.pos)
                             /\ f.result = NoResult
    /\ f.pc = "done" => f.result \in SoloResults(f.response)

(***************************************************************************)
(* C19  Invocation isolation: with two invoke calls on one instance        *)
(* interleaved at their network waits, each coroutine is at every moment   *)
(* in a state it reaches when running alone on its own arguments and       *)
(* response, and ends with a result it ends with when running alone; the   *)
(* suspended coroutine's frame is untouched while the other runs; and no   *)
(* step writes a field of the shared instance.                             *)
(***************************************************************************)
C19_InvocationIsolation ==
    /\ [](AsAlone(RunningFrame) /\ AsAlone(other))
    /\ [][ /\ type' = type
           /\ verbose' = verbose
           /\ base_url' = base_url
           /\ cur' = cur => other' = other
         ]_vars

\* Both coroutines are suspended in the middle of their streams, each with a
\* partial record of its own stream in its buffer.
C19_Witness ==
    /\ type = "Agent"
    /\ pc = "streaming"
    /\ other.pc = "streaming"
    /\ response.body.bytes = AgentMessage2 \o Delim
    /\ other.response.body.bytes = AgentMessage1 \o Delim
    /\ loc.buffer = <<Prefix, "am(c2", Lead>>
    /\ other.loc.buffer = <<Prefix, "am(c1">>
    /\ cur = 1

\* The chat request of the invocation has gone out.
ChatRequestOut ==
    pc \in {"posting", "streaming"} \/ (pc = "done" /\ response # NoResponse)

(***************************************************************************)
(* C20  The outgoing chat request carries a conversation_id field if and   *)
(* only if invoke was given a non-empty conversation_id and start_as_new   *)
(* is false; when the field is present it is the given id.                 *)
(***************************************************************************)
C20_ConversationField ==
    ChatRequestOut
        => /\ "conversation_id" \in DOMAIN payloads
                <=> (arg.conversation_id \notin {JNull, JStr(<<>>)} /\ ~arg.start_as_new)
           /\ "conversation_id" \in DOMAIN payloads
                => payloads["conversation_id"] = arg.conversation_id

\* A request continuing conversation c1 is out and carries the id.
C20_Witness ==
    /\ pc = "posting"
    /\ arg.conversation_id = Cid1
    /\ ~arg.start_as_new
    /\ "conversation_id" \in DOMAIN payloads
    /\ payloads["conversation_id"] = Cid1

====
